---- MODULE Spec2Model ----
(***************************************************************************)
(* A model of the per-open-file I/O engine of curlftpfs (src/ftpfs.c):     *)
(*   - the write pipeline: ftpfs_write / ftpfs_flush / ftpfs_release on    *)
(*     one open handle (the producer), the upload worker thread            *)
(*     ftpfs_write_thread with its read-callback write_data_bg, and the    *)
(*     four semaphores between them (specification SpecW);                 *)
(*   - the read engine: ftpfs_read_chunk on the shared connection, the     *)
(*     metadata RPCs, open and release of read-only handles, run by        *)
(*     dispatcher threads under the shared-connection mutex (SpecR, a     *)
(*     host serving one upcall at a time; SpecL, two dispatcher threads).  *)
(* Bytes are small integers; a remote file is a sequence of bytes.         *)
(***************************************************************************)
EXTENDS Integers, Sequences, FiniteSets, TLC

(***************************************************************************)
(* Bounds of the model.                                                    *)
(***************************************************************************)
\* upcalls issued on the write handle in one run
MaxCalls == 4
\* largest size argument of a write call
MaxSize == 2
\* largest size*nmemb the library passes to the read-callback
MaxCap == 2
\* length of every remote file, in bytes
FileLen == 2
\* largest size argument of a read call
MaxRead == 2
\* most bytes one curl_multi_perform delivers to the write callback
MaxChunk == 2
\* MAX_BUFFER_LEN, the soft cap of the read window (300*1024 in the source),
\* scaled to the file length of the model
MAX_BUFFER_LEN == 1

(***************************************************************************)
(* Program constants.                                                      *)
(***************************************************************************)
CURLE_OK == 0
\* some non-zero CURLcode returned by curl_easy_perform
CURLE_FAIL == 1
\* the sentinel ftpfs_flush latches on a size mismatch
SIZE_MISMATCH == -999
EIO == -5
ENOMEM == -12
EPERM == -1
EACCES == -13
ENOENT == -2
ENOTSUP == -95

VARIABLES
  \* ---- write pipeline (one struct ftpfs_file opened for writing) ----
  fh,      \* the fields of struct ftpfs_file the write path uses
  sem,     \* the four semaphores of the handle: their counts
  thr,     \* the upload worker thread: its position and locals
  prod,    \* the dispatcher thread serving upcalls on the handle
  hist,    \* history variables (observation only)
  \* ---- read engine (the shared connection and the read-only handles) ----
  files,   \* heap slot -> the fields of struct ftpfs_file the read path uses
  ftpfs,   \* struct ftpfs: current_fh, attached_to_multi, lock (and two
           \* history flags, dangled and libfailed, observation only)
  conn,    \* the options set on ftpfs.connection
  multi,   \* the library's state of ftpfs.multi and of the transfer in it
  th,      \* dispatcher thread -> its position and locals
  seek     \* history of the reads on one handle (observation only)

wvars == <<fh, sem, thr, prod, hist>>
rvars == <<files, ftpfs, conn, multi, th, seek>>
vars == <<fh, sem, thr, prod, hist, files, ftpfs, conn, multi, th, seek>>

(***************************************************************************)
(* Helpers.                                                                *)
(***************************************************************************)
Min(a, b) == IF a < b THEN a ELSE b

\* the bytes n+1 .. n+k, in order
Bytes(n, k) == [i \in 1..k |-> n + i]

IsPrefix(s, t) == Len(s) <= Len(t) /\ SubSeq(t, 1, Len(s)) = s

\* a faulty variant of ShiftPrefix that keeps the head of the buffer
ShiftPrefix_KeepsHead(buf, n) == SubSeq(buf, 1, Len(buf) - n)

\* memmove(p, p + n, len - n): the buffer without its first n bytes
ShiftPrefix(buf, n) == SubSeq(buf, n + 1, Len(buf))

SemZero == [ready |-> 0, data_avail |-> 0, data_need |-> 0, data_written |-> 0]

sem_post(s, name) == [s EXCEPT ![name] = @ + 1]
sem_wait(s, name) == [s EXCEPT ![name] = @ - 1]

NoThread == [pc |-> "none", cap |-> 0, curl_res |-> CURLE_OK, done |-> FALSE,
             append |-> FALSE]

\* st_size is the size a call has asked the server for (the st_size of
\* ftpfs_flush, the path_size of ftpfs_write, the size of ftpfs_ftruncate);
\* rpc is the request by which the call has changed the remote file; acc
\* is the access mode of an open, and exists_excl tells that the open had
\* O_EXCL and its path exists
NoCall == [pc |-> "idle", op |-> "none", offset |-> 0, data |-> <<>>,
           ret |-> 0, pos0 |-> 0, creat |-> FALSE, st_size |-> 0,
           rpc |-> "none", acc |-> "none", exists_excl |-> FALSE]

\* memset(fh, 0, sizeof *fh) and the initialisations of ftpfs_open_common
NewFile == [alloc |-> "open", pos |-> 0, write_conn |-> FALSE,
            write_fail_cause |-> CURLE_OK, write_may_start |-> FALSE,
            stream_buf |-> <<>>, isready |-> FALSE, eof |-> FALSE,
            written_flag |-> FALSE, dirty |-> FALSE]

NoHist == [calls |-> 0, okSum |-> 0, seqOk |-> TRUE, wrote |-> FALSE,
           upl |-> "none", sent |-> <<>>, handed |-> <<>>, okData |-> <<>>,
           pend |-> <<>>]

InitW ==
  /\ fh = [NewFile EXCEPT !.alloc = "none"]
  /\ sem = SemZero
  /\ thr = NoThread
  /\ prod = NoCall
  /\ hist = NoHist

(***************************************************************************)
(* The shared connection, its mutex ftpfs.lock and the pump ftpfs.multi.   *)
(***************************************************************************)
NULL == 0

\* no transfer in the pump
NoXfer == [added |-> FALSE, st |-> "none", path |-> "a", pos |-> 0,
           msg |-> "none"]

\* a faulty variant of cancel_previous_multi: the connection is left in the
\* pump
cancel_previous_multi_Keep(f, m) == m

\* cancel_previous_multi (lines 79-97): the transfer state after it
cancel_previous_multi(f, m) == IF f.attached_to_multi THEN NoXfer ELSE m

\* a faulty variant of LockFree: a mutex that excludes nobody
LockFree_Always(t) == TRUE

\* pthread_mutex_lock(&ftpfs.lock) can return
LockFree(t) == ftpfs.lock = 0

\* the holder of ftpfs.lock when the producer has taken it
ProducerId == 3

LockedByProducer == ftpfs.lock = ProducerId

\* pthread_mutex_lock(&ftpfs.lock) by the producer (lines 178, 781, 1111)
ProducerLocks ==
  /\ LockFree(ProducerId)
  /\ ftpfs' = [ftpfs EXCEPT !.lock = ProducerId]
  /\ UNCHANGED <<files, conn, multi, th, seek>>

\* a faulty variant of ProducerRpc: the lock is not released
ProducerRpc_KeepLock ==
  /\ multi' = cancel_previous_multi(ftpfs, multi)
  /\ ftpfs' = [ftpfs EXCEPT !.attached_to_multi = FALSE]
  /\ conn' = [conn EXCEPT !.writedata = NULL]
  /\ UNCHANGED <<files, th, seek>>

\* the body of a metadata RPC of the producer (lines 179-183, 783-795):
\* the pump is detached, the connection writes to a buffer of the RPC, the
\* blocking perform runs, the lock is released
ProducerRpc ==
  /\ multi' = cancel_previous_multi(ftpfs, multi)
  /\ ftpfs' = [ftpfs EXCEPT !.attached_to_multi = FALSE, !.lock = 0]
  /\ conn' = [conn EXCEPT !.writedata = NULL]
  /\ UNCHANGED <<files, th, seek>>

(***************************************************************************)
(* The producer: the dispatcher thread serving upcalls on the handle.      *)
(***************************************************************************)
Return(v) == [prod EXCEPT !.pc = "ret", !.ret = v]

Call(op, offset, data) ==
  [pc |-> "idle", op |-> op, offset |-> offset, data |-> data, ret |-> 0,
   pos0 |-> fh.pos, creat |-> FALSE, st_size |-> 0, rpc |-> "none",
   acc |-> "none", exists_excl |-> FALSE]

CountCall(h) == [h EXCEPT !.calls = @ + 1]

\* the flags of an open the write-side specification issues
OpenFlags ==
  { fl \in [acc : {"O_RDONLY", "O_WRONLY", "O_RDWR"}, creat : BOOLEAN,
            trunc : BOOLEAN, excl : BOOLEAN, append : BOOLEAN] :
      fl.acc = "O_RDONLY" => fl.creat }

\* the outcomes of start_write_thread
StartOutcomes == {"ok", "noconn", "nothread"}

\* a faulty variant of start_write_thread_fh: eof is not cleared
start_write_thread_fh_KeepEof(f, outcome) ==
  [f EXCEPT !.written_flag = FALSE, !.isready = FALSE,
            !.write_conn = (outcome # "noconn")]

\* start_write_thread: the handle after it (curl_easy_init returned NULL on
\* "noconn"; pthread_create failed on "nothread", leaving write_conn set)
start_write_thread_fh(f, outcome) ==
  [f EXCEPT !.written_flag = FALSE, !.isready = FALSE, !.eof = FALSE,
            !.write_conn = (outcome # "noconn")]

\* start_write_thread: the worker it creates
start_write_thread_thr(outcome) ==
  IF outcome = "ok" THEN [NoThread EXCEPT !.pc = "t_config"] ELSE NoThread

\* history: a new upload begins when the worker is created
StartUpload(h, outcome) ==
  IF outcome = "ok"
    THEN [h EXCEPT !.upl = "active", !.sent = <<>>, !.handed = <<>>,
                   !.okData = <<>>, !.pend = <<>>]
    ELSE h

\* free_ftpfs_file
free_ftpfs_file(f) == [f EXCEPT !.alloc = "freed", !.write_conn = FALSE]

\* ftpfs_open_common up to the first blocking call: the error the flag checks
\* give (0 when the open goes on), for the inputs exists (test_exists found
\* the path) and mk (the result of ftpfs_mknod)
OpenErr(fl, exists, mk, outcome) ==
  IF fl.acc = "O_RDONLY" THEN mk
  ELSE IF fl.acc = "O_RDWR" THEN ENOTSUP
  ELSE LET e1 == IF fl.append THEN ENOTSUP ELSE 0
           e2 == IF fl.excl /\ exists THEN EACCES ELSE e1
       IN  IF e2 # 0 THEN e2
           ELSE IF (fl.creat \/ fl.trunc) /\ outcome # "ok" THEN EIO
           ELSE 0

\* whether the open starts the worker
OpenStarts(fl, exists) ==
  /\ fl.acc = "O_WRONLY"
  /\ ~fl.append
  /\ ~(fl.excl /\ exists)
  /\ (fl.creat \/ fl.trunc)

\* ftpfs_open_common called with the flags fl. Its inputs: exists (what
\* test_exists finds, asked only with O_EXCL), mk (the result of
\* ftpfs_mknod, called only for O_RDONLY with O_CREAT) and outcome (what
\* start_write_thread does, when it is called)
OpenCall(fl) ==
  /\ UNCHANGED rvars
  /\ prod.pc = "idle"
  /\ fh.alloc # "open"
  /\ hist.calls < MaxCalls
  /\ \E exists \in (IF fl.excl THEN BOOLEAN ELSE {FALSE}),
        mk \in (IF fl.acc = "O_RDONLY" THEN {0, EPERM} ELSE {0}) :
     \E outcome \in (IF OpenStarts(fl, exists) THEN StartOutcomes
                     ELSE {"ok"}) :
     LET err == OpenErr(fl, exists, mk, outcome)
         starts == OpenStarts(fl, exists)
         f0 == [NewFile EXCEPT !.write_may_start = starts]
         f1 == IF starts THEN start_write_thread_fh(f0, outcome) ELSE f0
         c == [Call("open", 0, <<>>) EXCEPT
                  !.pos0 = 0, !.creat = fl.creat, !.acc = fl.acc,
                  !.exists_excl = (fl.excl /\ exists),
                  !.rpc = IF fl.acc = "O_RDONLY" THEN "create_empty_file"
                          ELSE "none"]
         h0 == [NoHist EXCEPT !.calls = hist.calls + 1]
     IN  IF err # 0
           THEN /\ fh' = free_ftpfs_file(f1)
                /\ prod' = [c EXCEPT !.pc = "ret", !.ret = err]
                /\ sem' = SemZero
                /\ UNCHANGED thr
                /\ hist' = h0
           ELSE IF starts
             THEN /\ fh' = f1
                  /\ sem' = SemZero
                  /\ thr' = start_write_thread_thr(outcome)
                  /\ prod' = [c EXCEPT !.pc = "start_wait_ready"]
                  /\ hist' = StartUpload(h0, outcome)
             ELSE /\ fh' = f1
                  /\ prod' = [c EXCEPT !.pc = "ret", !.ret = 0]
                  /\ UNCHANGED <<sem, thr>>
                  /\ hist' = h0

\* sem_wait(&fh->ready) after start_write_thread (open and write)
StartWaitReady ==
  /\ UNCHANGED rvars
  /\ prod.pc = "start_wait_ready"
  /\ sem.ready > 0
  /\ sem' = sem_wait(sem, "ready")
  /\ prod' = [prod EXCEPT !.pc = IF prod.op = "open" /\ prod.creat
                                   THEN "start_chmod" ELSE "start_post_need"]
  /\ UNCHANGED <<fh, thr, hist>>

\* ftpfs_chmod(path, mode) of an open with O_CREAT: an RPC on the shared
\* connection whose result is ignored
StartChmod ==
  /\ prod.pc = "start_chmod"
  /\ IF ~LockedByProducer
       THEN \* line 781
            /\ ProducerLocks
            /\ UNCHANGED wvars
       ELSE \* lines 783-795
            /\ ProducerRpc
            /\ prod' = [prod EXCEPT !.pc = "start_post_need"]
            /\ UNCHANGED <<fh, sem, thr, hist>>

\* a faulty variant of StartPostNeed: data_need is posted twice
StartPostNeed_Twice ==
  /\ UNCHANGED rvars
  /\ prod.pc = "start_post_need"
  /\ sem' = sem_post(sem_post(sem, "data_need"), "data_need")
  /\ prod' = IF prod.op = "open" THEN Return(0)
             ELSE [prod EXCEPT !.pc = "w_wait_need"]
  /\ UNCHANGED <<fh, thr, hist>>

\* sem_post(&fh->data_need) that ends the start sequence
StartPostNeed ==
  /\ UNCHANGED rvars
  /\ prod.pc = "start_post_need"
  /\ sem' = sem_post(sem, "data_need")
  /\ prod' = IF prod.op = "open" THEN Return(0)
             ELSE [prod EXCEPT !.pc = "w_wait_need"]
  /\ UNCHANGED <<fh, thr, hist>>

(***************************************************************************)
(* ftpfs_write                                                             *)
(***************************************************************************)
\* the sizes test_size can report for the path (a negative error included)
RemoteSizes == {ENOENT} \cup (0..MaxSize)

\* the offsets of the write calls issued: sequential, and not
WriteOffsets == {0, fh.pos, fh.pos + 1}

\* a faulty variant of PreviousWriteFailed that never rejects
PreviousWriteFailed_Never(f) == FALSE

\* line 982: a previous write failed
PreviousWriteFailed(f) == f.write_fail_cause # CURLE_OK

\* line 988: the write starts a streaming write
StartsAtZero(f, offset) == ~f.write_conn /\ f.pos = 0 /\ offset = 0

\* line 1013: the write resumes a streaming write
Resumes(f, offset) == ~f.write_conn /\ f.pos > 0 /\ offset = f.pos

\* a faulty variant of SizeRefused: a write that starts on any file
SizeRefused_Never(path_size) == FALSE

\* line 997: a write may not start on a file that is not empty
SizeRefused(path_size) == path_size # 0

\* ftpfs_write from its entry to its first blocking call or its return
\* (lines 982-1028): path_size is what test_size returns (asked only when
\* a write starts at zero without write_may_start), outcome what
\* start_write_thread does
WriteCall(offset, size) ==
  /\ UNCHANGED rvars
  /\ prod.pc = "idle"
  /\ fh.alloc = "open"
  /\ hist.calls < MaxCalls
  /\ LET c == Call("write", offset, Bytes(offset, size))
         h0 == CountCall(hist)
     IN  IF PreviousWriteFailed(fh)
           THEN /\ prod' = [c EXCEPT !.pc = "ret", !.ret = EIO]
                /\ hist' = h0
                /\ UNCHANGED <<fh, sem, thr>>
         ELSE IF StartsAtZero(fh, offset) \/ Resumes(fh, offset)
           THEN \E path_size \in (IF StartsAtZero(fh, offset)
                                     /\ ~fh.write_may_start
                                    THEN RemoteSizes ELSE {0}),
                   outcome \in StartOutcomes :
                IF StartsAtZero(fh, offset) /\ ~fh.write_may_start
                   /\ SizeRefused(path_size)
                  THEN /\ prod' = [c EXCEPT !.pc = "ret", !.ret = EIO,
                                             !.st_size = path_size]
                       /\ hist' = h0
                       /\ UNCHANGED <<fh, sem, thr>>
                  ELSE /\ fh' = start_write_thread_fh(fh, outcome)
                       /\ sem' = SemZero
                       /\ thr' = start_write_thread_thr(outcome)
                       /\ hist' = StartUpload(h0, outcome)
                       /\ prod' = IF outcome = "ok"
                                    THEN [c EXCEPT !.pc = "start_wait_ready",
                                                   !.st_size = path_size]
                                    ELSE [c EXCEPT !.pc = "ret", !.ret = EIO,
                                                   !.st_size = path_size]
         ELSE IF fh.write_conn
           THEN /\ prod' = [c EXCEPT !.pc = "w_wait_need"]
                /\ hist' = h0
                /\ UNCHANGED <<fh, sem, thr>>
           ELSE \* line 1061: no branch taken, the call returns size
                /\ prod' = [c EXCEPT !.pc = "ret", !.ret = size]
                /\ hist' = [h0 EXCEPT !.okSum = @ + size, !.wrote = TRUE,
                                      !.seqOk = @ /\ offset = hist.okSum]
                /\ UNCHANGED <<fh, sem, thr>>

\* line 1029-1031: sem_wait(&fh->data_need), then the sequentiality test
WriteWaitNeed ==
  /\ UNCHANGED rvars
  /\ prod.pc = "w_wait_need"
  /\ sem.data_need > 0
  /\ sem' = sem_wait(sem, "data_need")
  /\ prod' = [prod EXCEPT !.pc = IF prod.offset # fh.pos
                                   THEN "w_ns_post_avail" ELSE "w_append"]
  /\ UNCHANGED <<fh, thr, hist>>

\* line 1034: the non-sequential write posts data_avail, then finishes
WriteNonSeqPostAvail ==
  /\ UNCHANGED rvars
  /\ prod.pc = "w_ns_post_avail"
  /\ sem' = sem_post(sem, "data_avail")
  /\ prod' = [prod EXCEPT !.pc = "f_check"]
  /\ UNCHANGED <<fh, thr, hist>>

\* lines 1040-1044: buf_add_mem(&fh->stream_buf, wbuf, size); pos += size
WriteAppend ==
  /\ UNCHANGED rvars
  /\ prod.pc = "w_append"
  /\ fh' = [fh EXCEPT !.stream_buf = @ \o prod.data,
                      !.pos = @ + Len(prod.data)]
  /\ hist' = [hist EXCEPT !.handed = @ \o prod.data, !.pend = prod.data]
  /\ prod' = [prod EXCEPT !.pc = "w_post_avail"]
  /\ UNCHANGED <<sem, thr>>

\* lines 1040-1043: buf_add_mem fails; data_need is given back
WriteNoMem ==
  /\ UNCHANGED rvars
  /\ prod.pc = "w_append"
  /\ sem' = sem_post(sem, "data_need")
  /\ prod' = Return(ENOMEM)
  /\ UNCHANGED <<fh, thr, hist>>

\* line 1046
WritePostAvail ==
  /\ UNCHANGED rvars
  /\ prod.pc = "w_post_avail"
  /\ sem' = sem_post(sem, "data_avail")
  /\ prod' = [prod EXCEPT !.pc = "w_wait_written"]
  /\ UNCHANGED <<fh, thr, hist>>

\* line 1048
WriteWaitWritten ==
  /\ UNCHANGED rvars
  /\ prod.pc = "w_wait_written"
  /\ sem.data_written > 0
  /\ sem' = sem_wait(sem, "data_written")
  /\ prod' = [prod EXCEPT !.pc = "w_fin"]
  /\ UNCHANGED <<fh, thr, hist>>

\* lines 1049-1061: written_flag = 0, then the result of the call
WriteFin ==
  /\ UNCHANGED rvars
  /\ prod.pc = "w_fin"
  /\ fh' = [fh EXCEPT !.written_flag = FALSE]
  /\ IF fh.write_fail_cause # CURLE_OK
       THEN /\ prod' = Return(EIO)
            /\ UNCHANGED hist
       ELSE /\ prod' = Return(Len(prod.data))
            /\ hist' = [hist EXCEPT !.okSum = @ + Len(prod.data),
                                    !.wrote = TRUE,
                                    !.seqOk = @ /\ prod.offset = hist.okSum,
                                    !.okData = @ \o prod.data,
                                    !.pend = <<>>]
  /\ UNCHANGED <<sem, thr>>

(***************************************************************************)
(* finish_write_thread, called by ftpfs_write (non-sequential write) and   *)
(* by ftpfs_flush (from flush, fsync and release)                          *)
(***************************************************************************)
\* line 473: the wait on data_need is skipped after an error
FinishCheck ==
  /\ UNCHANGED rvars
  /\ prod.pc = "f_check"
  /\ prod' = [prod EXCEPT !.pc = IF fh.write_fail_cause = CURLE_OK
                                   THEN "f_wait_need" ELSE "f_post_avail"]
  /\ UNCHANGED <<fh, sem, thr, hist>>

\* line 475
FinishWaitNeed ==
  /\ UNCHANGED rvars
  /\ prod.pc = "f_wait_need"
  /\ sem.data_need > 0
  /\ sem' = sem_wait(sem, "data_need")
  /\ prod' = [prod EXCEPT !.pc = "f_post_avail"]
  /\ UNCHANGED <<fh, thr, hist>>

\* line 477
FinishPostAvail ==
  /\ UNCHANGED rvars
  /\ prod.pc = "f_post_avail"
  /\ sem' = sem_post(sem, "data_avail")
  /\ prod' = [prod EXCEPT !.pc = "f_eof"]
  /\ UNCHANGED <<fh, thr, hist>>

\* line 478
FinishSetEof ==
  /\ UNCHANGED rvars
  /\ prod.pc = "f_eof"
  /\ fh' = [fh EXCEPT !.eof = TRUE]
  /\ prod' = [prod EXCEPT !.pc = "f_join"]
  /\ UNCHANGED <<sem, thr, hist>>

\* a faulty variant of FinishResult: a finish that never reports the failure
FinishResult_Ok(f) == 0

\* the result of finish_write_thread (lines 491-495)
FinishResult(f) == IF f.write_fail_cause # CURLE_OK THEN EIO ELSE 0

\* lines 480-495: pthread_join returns once the worker has exited; then the
\* upload connection and the semaphores are destroyed. The caller goes on:
\* ftpfs_write returns -EIO (line 1036), ftpfs_flush returns the error or
\* queries the size (lines 1075-1080).
FinishJoin ==
  /\ UNCHANGED rvars
  /\ prod.pc = "f_join"
  /\ thr.pc = "exited"
  /\ thr' = NoThread
  /\ fh' = [fh EXCEPT !.write_conn = FALSE]
  /\ sem' = SemZero
  /\ hist' = [hist EXCEPT !.upl = "finished"]
  /\ prod' = IF prod.op = "write" THEN Return(EIO)
             ELSE IF FinishResult(fh) = 0
               THEN [prod EXCEPT !.pc = "fl_getattr"]
             ELSE IF prod.op = "release"
               THEN [prod EXCEPT !.pc = "rel_free"]
             ELSE Return(FinishResult(fh))

(***************************************************************************)
(* ftpfs_flush (also ftpfs_fsync) and ftpfs_release                        *)
(***************************************************************************)
\* lines 1071, 1094: dirty is never set, so a flush without upload returns 0
FlushCall ==
  /\ UNCHANGED rvars
  /\ prod.pc = "idle"
  /\ fh.alloc = "open"
  /\ hist.calls < MaxCalls
  /\ hist' = CountCall(hist)
  /\ prod' = IF fh.write_conn
               THEN [Call("flush", 0, <<>>) EXCEPT !.pc = "f_check"]
             ELSE [Call("flush", 0, <<>>) EXCEPT
                      !.pc = "ret", !.ret = IF fh.dirty THEN EIO ELSE 0]
  /\ UNCHANGED <<fh, sem, thr>>

\* lines 1080-1090: the size check after a finished upload; st is what
\* ftpfs_getattr reports (ENOENT, or the size of the remote file)
\* a faulty variant of SizeDiffers: a flush that accepts any remote size
SizeDiffers_Never(st, f) == FALSE

\* line 1083: sbuf.st_size != fh->pos
SizeDiffers(st, f) == st # f.pos

FlushGetattr(st) ==
  /\ prod.pc = "fl_getattr"
  /\ IF ~LockedByProducer
       THEN \* line 178
            /\ ProducerLocks
            /\ UNCHANGED wvars
       ELSE \* lines 179-183, 1081-1090
            /\ ProducerRpc
            /\ LET r == IF st = ENOENT THEN ENOENT
                        ELSE IF SizeDiffers(st, fh) THEN EIO ELSE 0
               IN  /\ fh' = IF st # ENOENT /\ SizeDiffers(st, fh)
                              THEN [fh EXCEPT
                                      !.write_fail_cause = SIZE_MISMATCH]
                              ELSE fh
                   /\ prod' = IF prod.op = "release"
                                THEN [prod EXCEPT !.pc = "rel_free"]
                                ELSE [Return(r) EXCEPT !.st_size = st]
            /\ UNCHANGED <<sem, thr, hist>>

\* a faulty variant of ReleaseCall: a release that does not flush
ReleaseCall_NoFlush ==
  /\ UNCHANGED rvars
  /\ prod.pc = "idle"
  /\ fh.alloc = "open"
  /\ hist.calls < MaxCalls
  /\ hist' = CountCall(hist)
  /\ prod' = [Call("release", 0, <<>>) EXCEPT !.pc = "rel_free"]
  /\ UNCHANGED <<fh, sem, thr>>

\* line 1110: release flushes first, ignoring the result
ReleaseCall ==
  /\ UNCHANGED rvars
  /\ prod.pc = "idle"
  /\ fh.alloc = "open"
  /\ hist.calls < MaxCalls
  /\ hist' = CountCall(hist)
  /\ prod' = [Call("release", 0, <<>>) EXCEPT
                 !.pc = IF fh.write_conn THEN "f_check" ELSE "rel_free"]
  /\ UNCHANGED <<fh, sem, thr>>

\* lines 1111-1123: free_ftpfs_file (the handle is no reader here, so it is
\* not ftpfs.current_fh)
ReleaseFree ==
  /\ prod.pc = "rel_free"
  /\ IF ~LockedByProducer
       THEN \* line 1111
            /\ ProducerLocks
            /\ UNCHANGED wvars
       ELSE \* lines 1112-1123
            /\ ftpfs' = [ftpfs EXCEPT !.lock = 0]
            /\ UNCHANGED <<files, conn, multi, th, seek>>
            /\ fh' = free_ftpfs_file(fh)
            /\ sem' = SemZero
            /\ prod' = Return(0)
            /\ UNCHANGED <<thr, hist>>

(***************************************************************************)
(* ftpfs_ftruncate                                                         *)
(***************************************************************************)
\* lines 879-898: len is the new length, mk the result of create_empty_file,
\* st the result of test_size
\* a faulty variant of ftruncate_ret: pos and the remote size are not tested
ftruncate_ret_NoCheck(f, len, mk, st) == mk

ftruncate_ret(f, len, mk, st) ==
  IF len = 0 THEN (IF f.pos = 0 THEN mk ELSE EPERM)
  ELSE IF len = st THEN 0 ELSE EPERM

\* lines 879-884: create_empty_file is called for length 0 at pos 0
ftruncate_rpc(f, len) ==
  IF len = 0 /\ f.pos = 0 THEN "create_empty_file" ELSE "none"

FtruncateCall(len, mk, st) ==
  /\ UNCHANGED rvars
  /\ prod.pc = "idle"
  /\ fh.alloc = "open"
  /\ hist.calls < MaxCalls
  /\ hist' = CountCall(hist)
  /\ fh' = IF len = 0 /\ fh.pos = 0
             THEN [fh EXCEPT !.write_may_start = TRUE] ELSE fh
  /\ prod' = [Call("ftruncate", len, <<>>) EXCEPT
                 !.pc = "ret", !.ret = ftruncate_ret(fh, len, mk, st),
                 !.st_size = IF len = 0 THEN 0 ELSE st,
                 !.rpc = ftruncate_rpc(fh, len)]
  /\ UNCHANGED <<sem, thr>>

(***************************************************************************)
(* ftpfs_truncate                                                          *)
(***************************************************************************)
\* lines 852-870: the call has a path and no handle; len is the new length,
\* mk the result of create_empty_file, st the result of test_size
truncate_ret(len, mk, st) ==
  IF len = 0 THEN mk ELSE IF len = st THEN 0 ELSE EPERM

TruncateCall(len, mk, st) ==
  /\ UNCHANGED rvars
  /\ prod.pc = "idle"
  /\ hist.calls < MaxCalls
  /\ hist' = CountCall(hist)
  /\ prod' = [Call("truncate", len, <<>>) EXCEPT
                 !.pc = "ret", !.ret = truncate_ret(len, mk, st),
                 !.st_size = IF len = 0 THEN 0 ELSE st,
                 !.rpc = IF len = 0 THEN "create_empty_file" ELSE "none"]
  /\ UNCHANGED <<fh, sem, thr>>

(***************************************************************************)
(* ftpfs_read on the handle                                                *)
(***************************************************************************)
\* line 731: a handle that has been written to is not read
ReadRejected(f) == f.pos > 0 \/ f.write_conn

\* lines 722-738: the test of line 731, then the call of ftpfs_read_chunk
ReadHandle ==
  /\ UNCHANGED rvars
  /\ prod.pc = "idle"
  /\ fh.alloc = "open"
  /\ hist.calls < MaxCalls
  /\ hist' = CountCall(hist)
  /\ prod' = IF ReadRejected(fh)
               THEN [Call("read", 0, <<>>) EXCEPT !.pc = "ret", !.ret = EIO]
               ELSE [Call("read", 0, <<>>) EXCEPT !.pc = "r_chunk"]
  /\ UNCHANGED <<fh, sem, thr>>

\* lines 738-747: ftpfs_read_chunk has used the shared connection and the
\* window of the handle; size_read is its result, -EIO on CURLFTPFS_BAD_READ
ReadHandleChunk(size_read) ==
  /\ UNCHANGED rvars
  /\ prod.pc = "r_chunk"
  /\ prod' = Return(size_read)
  /\ UNCHANGED <<fh, sem, thr, hist>>

\* the upcall returns to the host
ReturnToHost ==
  /\ UNCHANGED rvars
  /\ prod.pc = "ret"
  /\ prod' = NoCall
  /\ UNCHANGED <<fh, sem, thr, hist>>

(***************************************************************************)
(* The worker: ftpfs_write_thread, the library inside curl_easy_perform,   *)
(* and the read-callback write_data_bg                                     *)
(***************************************************************************)
\* lines 389-413: configure the upload; APPEND is set when pos > 0
ThreadConfig ==
  /\ UNCHANGED rvars
  /\ thr.pc = "t_config"
  /\ thr' = [thr EXCEPT !.pc = "t_perform", !.append = fh.pos > 0]
  /\ UNCHANGED <<fh, sem, prod, hist>>

\* the library asks for up to cap bytes of the upload body
LibCallback(cap) ==
  /\ UNCHANGED rvars
  /\ thr.pc = "t_perform"
  /\ ~thr.done
  /\ thr' = [thr EXCEPT !.pc = "cb_entry", !.cap = cap]
  /\ UNCHANGED <<fh, sem, prod, hist>>

\* curl_easy_perform returns: CURLE_OK only after the callback has returned
\* 0 (the end of the body); an error at any point between two callbacks
LibReturn(res) ==
  /\ UNCHANGED rvars
  /\ thr.pc = "t_perform"
  /\ res = CURLE_OK => thr.done
  /\ thr' = [thr EXCEPT !.pc = "t_after", !.curl_res = res]
  /\ UNCHANGED <<fh, sem, prod, hist>>

\* lines 345-348
CbReady ==
  /\ UNCHANGED rvars
  /\ thr.pc = "cb_entry"
  /\ IF ~fh.isready
       THEN /\ sem' = sem_post(sem, "ready")
            /\ fh' = [fh EXCEPT !.isready = TRUE]
       ELSE UNCHANGED <<sem, fh>>
  /\ thr' = [thr EXCEPT !.pc = "cb_written"]
  /\ UNCHANGED <<prod, hist>>

\* lines 350-352
CbWritten ==
  /\ UNCHANGED rvars
  /\ thr.pc = "cb_written"
  /\ sem' = IF fh.stream_buf = <<>> /\ fh.written_flag
              THEN sem_post(sem, "data_written") ELSE sem
  /\ thr' = [thr EXCEPT !.pc = "cb_wait"]
  /\ UNCHANGED <<fh, prod, hist>>

\* line 354
CbWaitAvail ==
  /\ UNCHANGED rvars
  /\ thr.pc = "cb_wait"
  /\ sem.data_avail > 0
  /\ sem' = sem_wait(sem, "data_avail")
  /\ thr' = [thr EXCEPT !.pc = "cb_eof"]
  /\ UNCHANGED <<fh, prod, hist>>

\* lines 358-359: with eof set the callback returns 0
CbEof ==
  /\ UNCHANGED rvars
  /\ thr.pc = "cb_eof"
  /\ thr' = IF fh.eof THEN [thr EXCEPT !.pc = "t_perform", !.done = TRUE]
            ELSE [thr EXCEPT !.pc = "cb_copy"]
  /\ UNCHANGED <<fh, sem, prod, hist>>

\* lines 362-363: the number of bytes the callback copies
to_copy(cap, buf) == Min(cap, Len(buf))

\* lines 365-375: memcpy to the library's buffer, then either the rest is
\* moved to the front or the buffer is emptied and written_flag set
CbCopy ==
  /\ UNCHANGED rvars
  /\ thr.pc = "cb_copy"
  /\ LET n == to_copy(thr.cap, fh.stream_buf)
     IN  /\ hist' = [hist EXCEPT !.sent = @ \o SubSeq(fh.stream_buf, 1, n)]
         /\ IF Len(fh.stream_buf) > n
              THEN /\ fh' = [fh EXCEPT
                               !.stream_buf = ShiftPrefix(fh.stream_buf, n)]
                   /\ thr' = [thr EXCEPT !.pc = "cb_post_avail"]
              ELSE /\ fh' = [fh EXCEPT !.stream_buf = <<>>,
                                       !.written_flag = TRUE]
                   /\ thr' = [thr EXCEPT !.pc = "cb_post_need",
                                         !.done = (n = 0)]
  /\ UNCHANGED <<sem, prod>>

\* line 370, then return to_copy
CbPostAvail ==
  /\ UNCHANGED rvars
  /\ thr.pc = "cb_post_avail"
  /\ sem' = sem_post(sem, "data_avail")
  /\ thr' = [thr EXCEPT !.pc = "t_perform"]
  /\ UNCHANGED <<fh, prod, hist>>

\* line 376, then return to_copy
CbPostNeed ==
  /\ UNCHANGED rvars
  /\ thr.pc = "cb_post_need"
  /\ sem' = sem_post(sem, "data_need")
  /\ thr' = [thr EXCEPT !.pc = "t_perform"]
  /\ UNCHANGED <<fh, prod, hist>>

\* lines 419-420
ThreadPostReady ==
  /\ UNCHANGED rvars
  /\ thr.pc = "t_after"
  /\ sem' = IF ~fh.isready THEN sem_post(sem, "ready") ELSE sem
  /\ thr' = [thr EXCEPT !.pc = IF thr.curl_res # CURLE_OK
                                 THEN "t_fail" ELSE "t_post_written"]
  /\ UNCHANGED <<fh, prod, hist>>

\* line 425
ThreadSetFail ==
  /\ UNCHANGED rvars
  /\ thr.pc = "t_fail"
  /\ fh' = [fh EXCEPT !.write_fail_cause = thr.curl_res]
  /\ thr' = [thr EXCEPT !.pc = "t_post_need"]
  /\ UNCHANGED <<sem, prod, hist>>

\* line 427
ThreadPostNeed ==
  /\ UNCHANGED rvars
  /\ thr.pc = "t_post_need"
  /\ sem' = sem_post(sem, "data_need")
  /\ thr' = [thr EXCEPT !.pc = "t_post_written"]
  /\ UNCHANGED <<fh, prod, hist>>

\* lines 432-434
ThreadPostWritten ==
  /\ UNCHANGED rvars
  /\ thr.pc = "t_post_written"
  /\ sem' = sem_post(sem, "data_written")
  /\ thr' = [thr EXCEPT !.pc = "exited"]
  /\ UNCHANGED <<fh, prod, hist>>

(***************************************************************************)
(* The read engine: remote files, heap slots, the shared connection.       *)
(***************************************************************************)
\* CURLOPT_RANGE unset
NoRange == -1

\* addresses malloc can return for a struct ftpfs_file
Slots == {1, 2}
\* dispatcher threads of the host
Threads == {1, 2}
\* remote paths; the files differ in length and in every byte
Paths == {"a", "b"}
\* a remote path whose file is longer than MAX_BUFFER_LEN and what one
\* curl_multi_perform delivers, together
LongPath == "c"
FileSize(p) ==
  IF p = "a" THEN FileLen
  ELSE IF p = "b" THEN FileLen - 1
  ELSE FileLen + MaxChunk
File(p) ==
  [i \in 1..FileSize(p) |->
     (IF p = "a" THEN 10 ELSE IF p = "b" THEN 20 ELSE 30) + i]

Max(a, b) == IF a > b THEN a ELSE b

\* the bytes [from, from + n) of a remote file, clipped to the file
FileSlice(p, from, n) ==
  SubSeq(File(p), from + 1, Min(FileSize(p), from + Max(n, 0)))

\* a slot no ftpfs_file lives in
\* (last_offset is only ever written, line 321, and is left out)
NoFile == [alloc |-> "free", path |-> "a", buf |-> <<>>, begin_offset |-> 0,
           can_shrink |-> FALSE]

NoOp == [pc |-> "idle", op |-> "none", h |-> NULL, offset |-> 0, size |-> 0,
         rh |-> 0, err |-> FALSE]

\* history: prev is the offset of the latest read of the handle, if it
\* returned without error (-1 otherwise); restarted tells that the read in
\* progress has restarted the transfer; next is the offset at which the
\* reads of the handle go on in sequence: 0 after the open, the end of the
\* latest read after it, -1 once a read has started elsewhere or failed,
\* or a metadata RPC has used the connection
NoSeek == [prev |-> -1, restarted |-> FALSE, next |-> -1]

InitR ==
  /\ seek = NoSeek
  /\ files = [s \in Slots |-> NoFile]
  /\ ftpfs = [current_fh |-> NULL, attached_to_multi |-> FALSE, lock |-> 0,
              dangled |-> FALSE, libfailed |-> FALSE]
  /\ conn = [writedata |-> NULL, range |-> NoRange]
  /\ multi = NoXfer
  /\ th = [t \in Threads |-> NoOp]

\* read_data, the write callback of the shared connection: buf_add_mem to
\* the buffer CURLOPT_WRITEDATA names (a buffer on the stack of an RPC, or
\* the buf of the struct ftpfs_file at that address)
read_data(fs, wd, bytes) ==
  IF wd # NULL /\ fs[wd].alloc = "open"
    THEN [fs EXCEPT ![wd].buf = @ \o bytes]
    ELSE fs

\* a transfer that has ended, its completion message waiting to be read
Completed(result) ==
  [added |-> TRUE, st |-> "done", path |-> "a", pos |-> 0, msg |-> result]

\* One curl_multi_perform on ftpfs.multi (lines 204, 266, 297): the set of
\* its outcomes [files, multi, rh]. A transfer just added reads the URL and
\* the range of the connection; a running one delivers up to MaxChunk bytes
\* and may complete once the file is delivered, or fail.
curl_multi_perform(fs, m, c) ==
  IF ~m.added \/ m.st = "done"
    THEN {[files |-> fs, multi |-> m, rh |-> 0]}
    ELSE LET m1 == IF m.st = "new"
                     THEN [m EXCEPT !.st = "run",
                             !.pos = IF c.range = NoRange THEN 0 ELSE c.range]
                     ELSE m
             left == Max(0, FileSize(m1.path) - m1.pos)
         IN  {[files |-> fs, multi |-> Completed("fail"), rh |-> 0]}
             \cup
             UNION {
               {[files |-> read_data(fs, c.writedata,
                                     FileSlice(m1.path, m1.pos, k)),
                 multi |-> IF fin THEN Completed("ok")
                           ELSE [m1 EXCEPT !.pos = @ + k],
                 rh |-> IF fin THEN 0 ELSE 1] :
                  fin \in {b \in BOOLEAN :
                            b => m1.pos + k >= FileSize(m1.path)}} :
               k \in 0..Min(MaxChunk, left)}

\* a dispatcher thread is serving an upcall on the handle at slot s
Busy(s) == \E u \in Threads : th[u].pc # "idle" /\ th[u].h = s

\* the host hands an upcall to its lowest idle dispatcher thread
Dispatch(t) ==
  /\ th[t].pc = "idle"
  /\ \A u \in Threads : u < t => th[u].pc # "idle"

\* history: ftpfs.current_fh points to freed memory
Dangling(f, fs) == f.current_fh # NULL /\ fs[f.current_fh].alloc # "open"

(***************************************************************************)
(* ftpfs_open_common, read-only without O_CREAT                            *)
(***************************************************************************)
\* lines 604-634: malloc returns the free slot s; the handle is initialised
\* and the probe ftpfs_read_chunk(full_path, NULL, 1, 0, fi, 0) is called
OpenRO(t, s, p) ==
  /\ UNCHANGED wvars
  /\ Dispatch(t)
  /\ files[s].alloc # "open"
  /\ ~Busy(s)
  /\ files' = [files EXCEPT ![s] = [NoFile EXCEPT !.alloc = "open",
                                       !.path = p, !.can_shrink = TRUE]]
  /\ th' = [th EXCEPT ![t] = [NoOp EXCEPT !.pc = "rc_lock", !.op = "open",
                                 !.h = s, !.offset = 0, !.size = 1]]
  /\ UNCHANGED <<ftpfs, conn, multi>>

\* ftpfs_read (lines 722-738) on an open handle, up to the lock taken by
\* ftpfs_read_chunk (line 224)
ReadCall(t, s, offset, size) ==
  /\ UNCHANGED wvars
  /\ Dispatch(t)
  /\ files[s].alloc = "open"
  /\ \A u \in Threads : (th[u].pc # "idle" /\ th[u].h = s) => th[u].op = "read"
  /\ LockFree(t)
  /\ ftpfs' = [ftpfs EXCEPT !.lock = t]
  /\ th' = [th EXCEPT ![t] = [NoOp EXCEPT !.pc = "rc_check", !.op = "read",
                                 !.h = s, !.offset = offset, !.size = size]]
  /\ UNCHANGED <<files, conn, multi>>

(***************************************************************************)
(* ftpfs_read_chunk                                                        *)
(***************************************************************************)
\* line 224, for the probe of an open
RcLock(t) ==
  /\ UNCHANGED wvars
  /\ th[t].pc = "rc_lock"
  /\ LockFree(t)
  /\ ftpfs' = [ftpfs EXCEPT !.lock = t]
  /\ th' = [th EXCEPT ![t].pc = "rc_check"]
  /\ UNCHANGED <<files, conn, multi>>

\* a faulty variant of CacheMiss: no request is answered from the window
CacheMiss_Always(f, offset, size) == TRUE

\* lines 228-230: the request cannot be answered from the window
CacheMiss(f, offset, size) ==
  \/ Len(f.buf) < size + offset - f.begin_offset
  \/ offset < f.begin_offset
  \/ offset > f.begin_offset + Len(f.buf)

\* a faulty variant of MustRestart: the owner is not tested
MustRestart_NoOwner(h, f, offset) ==
  offset < f.begin_offset \/ offset > f.begin_offset + Len(f.buf)

\* a faulty variant of MustRestart: the backward seek is not tested
MustRestart_NoBackward(h, f, offset) ==
  ftpfs.current_fh # h \/ offset > f.begin_offset + Len(f.buf)

\* lines 232-234: the restart conditions that are tested before
\* check_running() is called
MustRestart(h, f, offset) ==
  \/ ftpfs.current_fh # h
  \/ offset < f.begin_offset
  \/ offset > f.begin_offset + Len(f.buf)

\* lines 242-262: the restart. The window is cleared and set to start at
\* offset, the handle becomes the owner, the previous transfer is removed
\* and a new one added.
RestartFiles(fs, h, offset) ==
  [fs EXCEPT ![h].buf = <<>>, ![h].begin_offset = offset]

\* a faulty variant of RestartConn: the restart sets no byte range
RestartConn_KeepRange(c, h, offset) == [writedata |-> h, range |-> c.range]

RestartConn(c, h, offset) ==
  [writedata |-> h, range |-> IF offset # 0 THEN offset ELSE c.range]

\* lines 245, 262: the transfer added for the URL of path
RestartMulti(path) ==
  [NoXfer EXCEPT !.added = TRUE, !.st = "new", !.path = path]

\* lines 228-263
RcCheck(t) ==
  /\ UNCHANGED wvars
  /\ th[t].pc = "rc_check"
  /\ LET h == th[t].h
         f == files[h]
         offset == th[t].offset
     IN  IF ~CacheMiss(f, offset, th[t].size)
           THEN /\ th' = [th EXCEPT ![t].pc = "rc_serve"]
                /\ UNCHANGED <<files, ftpfs, conn, multi>>
         ELSE IF MustRestart(h, f, offset)
           THEN /\ files' = RestartFiles(files, h, offset)
                /\ ftpfs' = [ftpfs EXCEPT !.current_fh = h,
                                          !.attached_to_multi = TRUE]
                /\ conn' = RestartConn(conn, h, offset)
                /\ multi' = RestartMulti(f.path)
                /\ th' = [th EXCEPT ![t].pc = "rc_perform"]
         ELSE \E o \in curl_multi_perform(files, multi, conn) :
                \* check_running() (line 235)
                IF o.rh = 0
                  THEN /\ files' = RestartFiles(o.files, h, offset)
                       /\ ftpfs' = [ftpfs EXCEPT !.current_fh = h,
                                                 !.attached_to_multi = TRUE]
                       /\ conn' = RestartConn(conn, h, offset)
                       /\ multi' = RestartMulti(f.path)
                       /\ th' = [th EXCEPT ![t].pc = "rc_perform"]
                  ELSE /\ files' = o.files
                       /\ multi' = o.multi
                       /\ th' = [th EXCEPT ![t].pc = "rc_perform"]
                       /\ UNCHANGED <<ftpfs, conn>>

\* lines 265-268: the first perform, then the range is unset
RcPerform(t) ==
  /\ UNCHANGED wvars
  /\ th[t].pc = "rc_perform"
  /\ \E o \in curl_multi_perform(files, multi, conn) :
       /\ files' = o.files
       /\ multi' = o.multi
       /\ th' = [th EXCEPT ![t].pc = "rc_loop", ![t].rh = o.rh]
  /\ conn' = [conn EXCEPT !.range = NoRange]
  /\ UNCHANGED ftpfs

\* line 270: the window does not hold the request yet
NeedMore(f, offset, size) == Len(f.buf) < size + offset - f.begin_offset

\* lines 270-298: one turn of the loop; select may fail (selectOk = FALSE)
RcLoop(t, selectOk) ==
  /\ UNCHANGED wvars
  /\ th[t].pc = "rc_loop"
  /\ IF NeedMore(files[th[t].h], th[t].offset, th[t].size) /\ th[t].rh # 0
       THEN IF ~selectOk
              THEN /\ th' = [th EXCEPT ![t].pc = "rc_msgs", ![t].err = TRUE]
                   /\ UNCHANGED <<files, multi>>
              ELSE \E o \in curl_multi_perform(files, multi, conn) :
                     /\ files' = o.files
                     /\ multi' = o.multi
                     /\ th' = [th EXCEPT ![t].rh = o.rh]
       ELSE /\ th' = [th EXCEPT ![t].pc = "rc_msgs"]
            /\ UNCHANGED <<files, multi>>
  /\ UNCHANGED <<ftpfs, conn>>

\* lines 300-311: with no transfer running the completion messages are
\* read; a missing message or a result other than CURLE_OK is an error
RcMsgs(t) ==
  /\ UNCHANGED wvars
  /\ th[t].pc = "rc_msgs"
  /\ IF th[t].rh = 0
       THEN /\ th' = [th EXCEPT ![t].pc = "rc_serve",
                                ![t].err = @ \/ multi.msg # "ok"]
            /\ multi' = [multi EXCEPT !.msg = "none"]
            /\ ftpfs' = [ftpfs EXCEPT !.libfailed = @ \/ multi.msg # "ok"]
       ELSE /\ th' = [th EXCEPT ![t].pc = "rc_serve"]
            /\ UNCHANGED <<multi, ftpfs>>
  /\ UNCHANGED <<files, conn>>

\* lines 314-315: the number of bytes served
Served(f, offset, size) ==
  LET tc == Len(f.buf) + f.begin_offset - offset
  IN  IF size > tc THEN tc ELSE size

\* a faulty variant of Shrink: the window is never shrunk
Shrink_Never(f, offset, n) == f

\* lines 325-333: the window after the shrink step
Shrink(f, offset, n) ==
  IF f.can_shrink /\ Len(f.buf) > MAX_BUFFER_LEN
    THEN [f EXCEPT !.buf = SubSeq(f.buf, offset - f.begin_offset + n + 1,
                                  Len(f.buf)),
                   !.begin_offset = offset + n]
    ELSE f

\* lines 316-318: the bytes copied to the caller
ServedBytes(f, offset, size) ==
  SubSeq(f.buf, offset - f.begin_offset + 1,
         offset - f.begin_offset + Served(f, offset, size))

\* lines 314-338: copy to the caller, shrink, unlock. ftpfs_read returns
\* the result (lines 740-747); ftpfs_open_common goes on with it.
RcServe(t) ==
  /\ UNCHANGED wvars
  /\ th[t].pc = "rc_serve"
  /\ LET h == th[t].h
         f == files[h]
         n == Served(f, th[t].offset, th[t].size)
     IN  files' = [files EXCEPT ![h] = Shrink(f, th[t].offset, n)]
  /\ th' = [th EXCEPT ![t] = IF th[t].op = "open"
                               THEN [@ EXCEPT !.pc = "open_fin"] ELSE NoOp]
  /\ ftpfs' = [ftpfs EXCEPT !.lock = 0]
  /\ UNCHANGED <<conn, multi>>

\* lines 636-639, 703-708: the open frees the handle when the probe failed
OpenFin(t) ==
  /\ UNCHANGED wvars
  /\ th[t].pc = "open_fin"
  /\ files' = IF th[t].err
                THEN [files EXCEPT ![th[t].h] = NoFile]
                ELSE files
  /\ ftpfs' = [ftpfs EXCEPT !.dangled = @ \/ Dangling(ftpfs, files')]
  /\ th' = [th EXCEPT ![t] = NoOp]
  /\ UNCHANGED <<conn, multi>>

(***************************************************************************)
(* The metadata RPCs: ftpfs_getattr, ftpfs_getdir, ftpfs_readlink,         *)
(* create_empty_file, ftpfs_do_cmd                                         *)
(***************************************************************************)
\* lines 178, 781: the RPC takes the lock
RpcCall(t) ==
  /\ UNCHANGED wvars
  /\ Dispatch(t)
  /\ LockFree(t)
  /\ ftpfs' = [ftpfs EXCEPT !.lock = t]
  /\ th' = [th EXCEPT ![t] = [NoOp EXCEPT !.pc = "rpc_body", !.op = "rpc"]]
  /\ UNCHANGED <<files, conn, multi>>

\* lines 179-183, 783-795: the pump is detached, the connection is set to
\* write to a buffer of the RPC, the blocking perform runs, the lock is
\* released
RpcBody(t) ==
  /\ UNCHANGED wvars
  /\ th[t].pc = "rpc_body"
  /\ multi' = cancel_previous_multi(ftpfs, multi)
  /\ ftpfs' = [ftpfs EXCEPT !.attached_to_multi = FALSE, !.lock = 0]
  /\ conn' = [conn EXCEPT !.writedata = NULL]
  /\ th' = [th EXCEPT ![t] = NoOp]
  /\ UNCHANGED files

(***************************************************************************)
(* ftpfs_release of a read-only handle                                     *)
(***************************************************************************)
\* lines 1110-1111: the flush of a handle without upload does nothing;
\* then the lock is taken
ReleaseRO(t, s) ==
  /\ UNCHANGED wvars
  /\ Dispatch(t)
  /\ files[s].alloc = "open"
  /\ ~Busy(s)
  /\ LockFree(t)
  /\ ftpfs' = [ftpfs EXCEPT !.lock = t]
  /\ th' = [th EXCEPT ![t] = [NoOp EXCEPT !.pc = "rel_clear", !.op = "release",
                                 !.h = s]]
  /\ UNCHANGED <<files, conn, multi>>

\* lines 1112-1115
RelClear(t) ==
  /\ UNCHANGED wvars
  /\ th[t].pc = "rel_clear"
  /\ ftpfs' = [ftpfs EXCEPT
                 !.current_fh = IF @ = th[t].h THEN NULL ELSE @,
                 !.lock = 0]
  /\ th' = [th EXCEPT ![t].pc = "rel_free"]
  /\ UNCHANGED <<files, conn, multi>>

\* line 1122: free_ftpfs_file
RelFree(t) ==
  /\ UNCHANGED wvars
  /\ th[t].pc = "rel_free"
  /\ files' = [files EXCEPT ![th[t].h] = NoFile]
  /\ ftpfs' = [ftpfs EXCEPT !.dangled = @ \/ Dangling(ftpfs, files')]
  /\ th' = [th EXCEPT ![t] = NoOp]
  /\ UNCHANGED <<conn, multi>>

(***************************************************************************)
(* The write-side specification.                                           *)
(***************************************************************************)
Init == InitW /\ InitR

NextW ==
  \/ \E fl \in OpenFlags : OpenCall(fl)
  \/ StartWaitReady
  \/ StartChmod
  \/ StartPostNeed
  \/ \E offset \in WriteOffsets, size \in 0..MaxSize : WriteCall(offset, size)
  \/ WriteWaitNeed
  \/ WriteNonSeqPostAvail
  \/ WriteAppend
  \/ WriteNoMem
  \/ WritePostAvail
  \/ WriteWaitWritten
  \/ WriteFin
  \/ FinishCheck
  \/ FinishWaitNeed
  \/ FinishPostAvail
  \/ FinishSetEof
  \/ FinishJoin
  \/ FlushCall
  \/ \E st \in RemoteSizes \cup {2 * MaxSize} : FlushGetattr(st)
  \/ ReleaseCall
  \/ ReleaseFree
  \/ \E len \in 0..1, mk \in {0, EPERM}, st \in RemoteSizes :
        FtruncateCall(len, mk, st)
  \/ \E len \in 0..1, mk \in {0, EPERM}, st \in RemoteSizes :
        TruncateCall(len, mk, st)
  \/ ReadHandle
  \/ \E size_read \in {EIO} \cup (0..MaxRead) : ReadHandleChunk(size_read)
  \/ ReturnToHost
  \/ ThreadConfig
  \/ \E cap \in 1..MaxCap : LibCallback(cap)
  \/ \E res \in {CURLE_OK, CURLE_FAIL} : LibReturn(res)
  \/ CbReady
  \/ CbWritten
  \/ CbWaitAvail
  \/ CbEof
  \/ CbCopy
  \/ CbPostAvail
  \/ CbPostNeed
  \/ ThreadPostReady
  \/ ThreadSetFail
  \/ ThreadPostNeed
  \/ ThreadPostWritten

SpecW == Init /\ [][NextW]_vars


(***************************************************************************)
(* The read side. ReadNext(T, S, P, track) is the host serving read-side  *)
(* upcalls with the dispatcher threads T on handles at the addresses S,    *)
(* opened on the paths P.                                                  *)
(***************************************************************************)
\* lines 242-262 seen from outside: the step of thread t has cleared the
\* window of its handle, set it to begin at the offset of the call, made
\* the handle the owner and attached a new transfer of its path
Restarts(t) ==
  LET h == th[t].h
  IN  /\ th[t].pc = "rc_check"
      /\ th'[t].pc = "rc_perform"
      /\ files'[h].buf = <<>>
      /\ files'[h].begin_offset = th[t].offset
      /\ ftpfs'.current_fh = h
      /\ ftpfs'.attached_to_multi
      /\ conn'.writedata = h
      /\ multi' = RestartMulti(files[h].path)

\* history of the reads that thread t serves on the handle at slot s
SeekNext(t, s) ==
  seek' = IF th[t].pc = "rc_serve" /\ th[t].op = "read"
            THEN [prev |-> IF th[t].err THEN -1 ELSE th[t].offset,
                  restarted |-> FALSE,
                  next |-> IF ~th[t].err /\ seek.next = th[t].offset
                             THEN th[t].offset
                                    + Served(files[s], th[t].offset, th[t].size)
                             ELSE -1]
          ELSE IF th[t].pc = "open_fin" /\ ~th[t].err
            THEN [NoSeek EXCEPT !.next = 0]
          ELSE IF files'[s].alloc # "open" \/ th'[t].op = "open"
            THEN NoSeek
          ELSE IF th[t].pc = "rpc_body"
            THEN [seek EXCEPT !.next = -1]
          ELSE IF Restarts(t) THEN [seek EXCEPT !.restarted = TRUE]
          ELSE seek

\* the reads are recorded when the specification follows one handle
Observe(track) == IF track THEN SeekNext(1, 1) ELSE UNCHANGED seek

ReadNext(T, S, P, track) ==
  \/ /\ \E t \in T, s \in S, p \in P : OpenRO(t, s, p)
     /\ Observe(track)
  \/ /\ \E t \in T, s \in S, offset \in 0..FileLen, size \in 1..MaxRead :
          ReadCall(t, s, offset, size)
     /\ Observe(track)
  \/ /\ \E t \in T : RcLock(t)
     /\ Observe(track)
  \/ /\ \E t \in T : RcCheck(t)
     /\ Observe(track)
  \/ /\ \E t \in T : RcPerform(t)
     /\ Observe(track)
  \/ /\ \E t \in T, selectOk \in BOOLEAN : RcLoop(t, selectOk)
     /\ Observe(track)
  \/ /\ \E t \in T : RcMsgs(t)
     /\ Observe(track)
  \/ /\ \E t \in T : RcServe(t)
     /\ Observe(track)
  \/ /\ \E t \in T : OpenFin(t)
     /\ Observe(track)
  \/ /\ \E t \in T : RpcCall(t)
     /\ Observe(track)
  \/ /\ \E t \in T : RpcBody(t)
     /\ Observe(track)
  \/ /\ \E t \in T, s \in S : ReleaseRO(t, s)
     /\ Observe(track)
  \/ /\ \E t \in T : RelClear(t)
     /\ Observe(track)
  \/ /\ \E t \in T : RelFree(t)
     /\ Observe(track)

\* a host that serves one upcall at a time (fuse -s), any handle address
NextR == ReadNext({1}, Slots, Paths, FALSE)

SpecR == Init /\ [][NextR]_vars

\* a multithreaded host, all its handles on one remote file
NextL == ReadNext(Threads, Slots, {"a"}, FALSE)

SpecL == Init /\ [][NextL]_vars

\* a host that serves one upcall at a time, all on one handle address; the
\* reads of the handle are recorded
NextB == ReadNext({1}, {1}, Paths, TRUE)

SpecB == Init /\ [][NextB]_vars

\* the same host, its handle on the long file
NextS == ReadNext({1}, {1}, {LongPath}, TRUE)

SpecS == Init /\ [][NextS]_vars

\* the opens for writing that start the worker or leave it to the first
\* write
UploadFlags ==
  { fl \in OpenFlags : fl.acc = "O_WRONLY" /\ ~fl.excl /\ ~fl.append }

\* an upload (open, write, flush, release and the worker) together with a
\* dispatcher thread that serves metadata RPCs of other paths on the shared
\* connection
NextC ==
  \/ \E fl \in UploadFlags : OpenCall(fl)
  \/ StartWaitReady
  \/ StartChmod
  \/ StartPostNeed
  \/ \E offset \in WriteOffsets, size \in {0, MaxSize} :
        WriteCall(offset, size)
  \/ WriteWaitNeed
  \/ WriteNonSeqPostAvail
  \/ WriteAppend
  \/ WriteNoMem
  \/ WritePostAvail
  \/ WriteWaitWritten
  \/ WriteFin
  \/ FinishCheck
  \/ FinishWaitNeed
  \/ FinishPostAvail
  \/ FinishSetEof
  \/ FinishJoin
  \/ FlushCall
  \/ \E st \in {0, MaxSize} : FlushGetattr(st)
  \/ ReleaseCall
  \/ ReleaseFree
  \/ ReturnToHost
  \/ ThreadConfig
  \/ LibCallback(1)
  \/ \E res \in {CURLE_OK, CURLE_FAIL} : LibReturn(res)
  \/ CbReady
  \/ CbWritten
  \/ CbWaitAvail
  \/ CbEof
  \/ CbCopy
  \/ CbPostAvail
  \/ CbPostNeed
  \/ ThreadPostReady
  \/ ThreadSetFail
  \/ ThreadPostNeed
  \/ ThreadPostWritten
  \/ RpcCall(1) /\ Observe(FALSE)
  \/ RpcBody(1) /\ Observe(FALSE)

SpecC == Init /\ [][NextC]_vars

(***************************************************************************)
(* Properties of the write pipeline (specification SpecW).                 *)
(***************************************************************************)
\* a write call has reached its return statement
WriteReturns == prod.pc = "ret" /\ prod.op = "write"

\* the producer is inside a sem_wait or the pthread_join
ProducerWaits ==
  prod.pc \in {"start_wait_ready", "w_wait_need", "w_wait_written",
               "f_wait_need", "f_join"}

\* C1: every write call on an open handle whose offset differs from the
\* pos the handle had when the call was made returns -EIO, whatever the
\* state of the handle (worker active, no worker and pos = 0, no worker and
\* pos > 0).
C1_NonSequentialWriteFails ==
  (WriteReturns /\ prod.offset # prod.pos0) => prod.ret = EIO

\* C1, the case reached: a non-sequential write on a handle with an active
\* worker has returned -EIO after finish_write_thread
C1_Witness ==
  /\ WriteReturns
  /\ prod.offset # prod.pos0
  /\ prod.ret = EIO
  /\ hist.upl = "finished"

\* C2: between two upcalls pos equals the sum of the sizes of the write
\* calls that returned success, each successful write had the offset that
\* sum had before it, and a write that returns an error leaves pos as it
\* was when the call was made.
C2_PosIsSumOfSuccessfulWrites ==
  /\ (fh.alloc = "open" /\ prod.pc \in {"idle", "ret"})
       => (fh.pos = hist.okSum /\ hist.seqOk)
  /\ (WriteReturns /\ prod.ret < 0) => fh.pos = prod.pos0

\* C3: while the handle is open a non-zero write_fail_cause stays non-zero,
\* and a write call made with write_fail_cause non-zero goes straight to its
\* return with -EIO: no semaphore is touched, no worker is started, and
\* stream_buf, pos and every other field of the handle keep their values.
C3_FailureLatches ==
  [][ /\ (fh.alloc = "open" /\ fh'.alloc = "open"
           /\ fh.write_fail_cause # CURLE_OK)
          => fh'.write_fail_cause # CURLE_OK
      /\ (prod.pc = "idle" /\ prod'.pc # "idle" /\ prod'.op = "write"
           /\ fh.write_fail_cause # CURLE_OK)
          => (/\ prod'.pc = "ret"
              /\ prod'.ret = EIO
              /\ UNCHANGED <<fh, sem, thr>>) ]_vars

\* C3, the case reached: flush has latched the size mismatch, and a write
\* made after it has been rejected at its entry
C3_Witness ==
  /\ fh.write_fail_cause = SIZE_MISMATCH
  /\ WriteReturns
  /\ prod.ret = EIO

\* C4: a write call returns success only after the read-callback of a
\* running upload has copied every byte of the call's chunk out of
\* stream_buf: at the return stream_buf is empty and every byte handed
\* over has been passed to the library.
C4_SuccessMeansCopied ==
  (WriteReturns /\ prod.ret >= 0)
    => (/\ fh.stream_buf = <<>>
        /\ prod.data # <<>>
             => (hist.upl = "active" /\ hist.sent = hist.handed
                 /\ hist.pend = <<>>))

\* C4 for the writes that are handed to a worker (the case the defect of C1
\* leaves out): they return success only once the callback has copied the
\* whole chunk.
C4_HandedOverWrites ==
  (WriteReturns /\ prod.ret >= 0 /\ hist.upl = "active")
    => (fh.stream_buf = <<>> /\ hist.sent = hist.handed /\ hist.pend = <<>>)

\* C5 as stated: once an upload has finished, the bytes the callback handed
\* to the library are the concatenation, in call order, of the payloads of
\* the write calls of that upload that returned success.
C5_BodyIsSuccessfulPayloads ==
  hist.upl = "finished" => hist.sent = hist.okData

\* C5, amended: at every point of an upload the bytes handed to the
\* library are a prefix of the payloads of the successful writes followed
\* by the payload of the write in hand-off (or of the write whose hand-off
\* failed); every successful write's payload has been handed over in full
\* when the upload finishes. So the body is the concatenation of the
\* successful payloads, followed by a prefix of the payload of the one
\* write, if any, that returned an error after its hand-off.
C5_BodyIsPayloadsAndFailedPrefix ==
  /\ IsPrefix(hist.sent, hist.okData \o hist.pend)
  /\ hist.upl = "active" => hist.sent \o fh.stream_buf = hist.handed
  /\ hist.upl = "finished" => IsPrefix(hist.okData, hist.sent)

\* C5, the case reached: an upload has finished after a chunk was split
\* across callbacks, and a write failed after part of it was handed over
C5_Witness ==
  /\ hist.upl = "finished"
  /\ hist.okData # <<>>
  /\ hist.sent # hist.okData

\* C6: the producer never deadlocks. A producer inside a sem_wait or the
\* pthread_join is never in a state without a successor: the worker, the
\* library or the producer itself can still take a step.
C6_ProducerNeverStuck == ProducerWaits => ENABLED NextW

(***************************************************************************)
(* Properties of the read engine (specifications SpecR and SpecL).         *)
(***************************************************************************)
\* thread t is at the end of a read call that reports no error
ReadSucceeds(t) ==
  th[t].pc = "rc_serve" /\ th[t].op = "read" /\ ~th[t].err

\* the window of the handle at slot s holds the bytes of its file
WindowIsFileSlice(s) ==
  files[s].buf = FileSlice(files[s].path, files[s].begin_offset,
                           Len(files[s].buf))

\* C7: as long as the transfer library has reported no failure, a read
\* (offset, size) that succeeds returns exactly the bytes [offset, offset+n)
\* of the remote file of its handle, n = min(size, bytes of the file from
\* offset on), also when the call shrinks the window.
C7_ReadReturnsFileBytes ==
  \A t \in Threads :
    (ReadSucceeds(t) /\ ~ftpfs.libfailed)
      => ServedBytes(files[th[t].h], th[t].offset, th[t].size)
           = FileSlice(files[th[t].h].path, th[t].offset, th[t].size)

\* C7 while ftpfs.current_fh has never pointed to a freed handle (the case
\* the defect of C9 leaves out)
C7_UnlessDangled ==
  \A t \in Threads :
    (ReadSucceeds(t) /\ ~ftpfs.libfailed /\ ~ftpfs.dangled)
      => ServedBytes(files[th[t].h], th[t].offset, th[t].size)
           = FileSlice(files[th[t].h].path, th[t].offset, th[t].size)

\* C8: in every state the read window of every open handle holds exactly
\* the bytes [begin_offset, begin_offset + len) of the handle's remote file.
C8_WindowIsFileSlice ==
  \A s \in Slots : files[s].alloc = "open" => WindowIsFileSlice(s)

\* C8 while ftpfs.current_fh has never pointed to a freed handle
C8_UnlessDangled ==
  ~ftpfs.dangled
    => \A s \in Slots : files[s].alloc = "open" => WindowIsFileSlice(s)

\* C9: in every state ftpfs.current_fh is NULL or the address of a handle
\* that has not been freed.
C9_CurrentFhIsLive ==
  ftpfs.current_fh = NULL \/ files[ftpfs.current_fh].alloc = "open"

\* C9 for ftpfs_release alone: the release of the owning handle clears
\* current_fh before the handle is freed
C9_ReleaseClears ==
  \A t \in Threads :
    th[t].pc = "rel_free" => ftpfs.current_fh # th[t].h

\* the positions of a thread inside the section ftpfs.lock protects
LockedSteps ==
  {"rc_check", "rc_perform", "rc_loop", "rc_msgs", "rc_serve", "rpc_body",
   "rel_clear"}

\* the positions inside ftpfs_read_chunk
ReadChunkSteps == {"rc_check", "rc_perform", "rc_loop", "rc_msgs", "rc_serve"}

\* the options of the shared connection, the pump, and the two fields of
\* struct ftpfs that say who owns it
Shared == <<conn, multi, ftpfs.current_fh, ftpfs.attached_to_multi>>

\* C10: a thread at a step that configures, performs on, attaches or
\* detaches the shared connection, or that reads or writes current_fh or
\* attached_to_multi, holds ftpfs.lock; nothing of that state changes
\* except by a step of the holder; and a thread inside ftpfs_read_chunk
\* keeps the lock until its last step, no other thread moving meanwhile
\* into a locked step.
C10_MutexHeld ==
  [][ /\ \A t \in Threads :
           /\ th[t].pc \in LockedSteps => ftpfs.lock = t
           /\ th'[t].pc \in LockedSteps => ftpfs'.lock = t
           /\ (th[t].pc \in ReadChunkSteps /\ th'[t].pc \in ReadChunkSteps)
                => \A u \in Threads \ {t} :
                     th'[u].pc \in LockedSteps => FALSE
      /\ Shared' # Shared
           => \E t \in Threads :
                /\ ftpfs.lock = t
                /\ th[t].pc \in LockedSteps
                /\ \A u \in Threads \ {t} : th'[u] = th[u] ]_vars

\* C10, the case reached: a read is inside its pump loop with the lock,
\* and the other dispatcher thread, free to serve an upcall, is kept out
C10_Witness ==
  \E t, u \in Threads :
    /\ t # u
    /\ th[t].pc = "rc_loop"
    /\ th[t].op = "read"
    /\ files[th[t].h].buf # <<>>
    /\ Dispatch(u)
    /\ ~LockFree(u)

(***************************************************************************)
(* The upload connection and the worker thread.                            *)
(***************************************************************************)
\* a worker thread has been created for the handle and not yet joined
WorkerRunning == thr.pc # "none"

\* C11: on every open handle, write_conn is present exactly when a worker
\* thread has been created for the handle and has not been joined yet, a
\* start_write_thread that failed to create the thread included.
C11_ConnIffWorker ==
  fh.alloc = "open" => (fh.write_conn <=> WorkerRunning)

\* C11, one direction: a worker that is not yet joined has its write_conn
C11_WorkerHasConn == WorkerRunning => fh.write_conn

\* C11, the case reached: a write came back from a start_write_thread whose
\* pthread_create failed
C11_Witness ==
  /\ WriteReturns
  /\ fh.write_conn
  /\ ~WorkerRunning

(***************************************************************************)
(* Reads on a handle that has been written to.                             *)
(***************************************************************************)
\* a read upcall on the handle is in progress or has its result
ReadInProgress == prod.op = "read"

\* C12: once a write call on the handle has returned success, every later
\* read on the handle returns an I/O error without calling
\* ftpfs_read_chunk, so that it touches neither the shared connection nor
\* the read window.
C12_ReadAfterWriteFails ==
  (ReadInProgress /\ hist.wrote)
    => (prod.pc = "ret" /\ prod.ret = EIO)

\* C12, as the code has it: the read is refused on the handle's state,
\* pos > 0 or an upload connection present
C12_ReadRefusedOnState ==
  (ReadInProgress /\ ReadRejected(fh))
    => (prod.pc = "ret" /\ prod.ret = EIO)

\* C12, the case reached: a read is refused after a successful write
C12_Witness ==
  /\ ReadInProgress
  /\ hist.wrote
  /\ prod.pc = "ret"
  /\ prod.ret = EIO

(***************************************************************************)
(* Flush and release of an upload.                                         *)
(***************************************************************************)
\* the step by which a flush that found an upload returns
FlushOfUploadReturns ==
  /\ prod.op = "flush"
  /\ prod.pc \in {"f_join", "fl_getattr"}
  /\ prod'.pc = "ret"

\* C13: a flush that found an upload returns only after the worker is
\* joined and write_conn removed; it returns 0 exactly when
\* finish_write_thread reported no failure and the size the attribute query
\* gave equals pos; on a size that differs it sets write_fail_cause and
\* returns -EIO, and the handle then refuses writes.
C13_FlushFinishesAndChecksSize ==
  [][ FlushOfUploadReturns
        => /\ ~fh'.write_conn
           /\ ~WorkerRunning'
           /\ hist'.upl = "finished"
           /\ prod'.ret = 0
                <=> /\ fh.write_fail_cause = CURLE_OK
                    /\ prod.pc = "fl_getattr"
                    /\ prod'.st_size = fh'.pos
           /\ (prod.pc = "fl_getattr" /\ prod'.st_size \notin {ENOENT, fh.pos})
                => /\ fh'.write_fail_cause # CURLE_OK
                   /\ prod'.ret = EIO
                   /\ PreviousWriteFailed(fh') ]_vars

\* C13, the case reached: a flush has joined the worker, found a remote
\* size other than pos and returned -EIO
C13_Witness ==
  /\ prod.op = "flush"
  /\ prod.pc = "ret"
  /\ prod.ret = EIO
  /\ prod.st_size # fh.pos
  /\ fh.write_fail_cause = SIZE_MISMATCH
  /\ ~fh.write_conn

\* the worker has latched a failure of the upload that is still attached
FailureLatched == fh.write_conn /\ fh.write_fail_cause # CURLE_OK

\* C14: once a failure is latched on an attached upload, the finish of the
\* next flush skips the wait on data_need and is not left waiting for the
\* worker; the flush returns -EIO with the worker joined and write_conn
\* removed; the release that follows goes straight to freeing the handle
\* and returns 0 with no worker running and no upload connection left.
C14_FlushThenReleaseAfterFailure ==
  /\ [](/\ (prod.op = "flush" /\ FailureLatched /\ ProducerWaits)
             => ENABLED NextW
        /\ (prod.op = "release" /\ prod.pc = "ret")
             => /\ prod.ret = 0
                /\ fh.alloc = "freed"
                /\ ~fh.write_conn
                /\ ~WorkerRunning)
  /\ [][ /\ (prod.op = "flush" /\ prod.pc = "f_check" /\ FailureLatched
               /\ prod' # prod)
              => prod'.pc = "f_post_avail"
         /\ (FlushOfUploadReturns /\ fh.write_fail_cause # CURLE_OK)
              => /\ prod'.ret = EIO
                 /\ ~fh'.write_conn
                 /\ ~WorkerRunning'
         /\ (prod.pc = "idle" /\ prod'.op = "release" /\ ~fh.write_conn)
              => prod'.pc = "rel_free" ]_vars

\* C14, the case reached: a flush has returned -EIO for an upload whose
\* failure the worker had latched, and the worker is joined
C14_Witness ==
  /\ prod.op = "flush"
  /\ prod.pc = "ret"
  /\ prod.ret = EIO
  /\ fh.write_fail_cause = CURLE_FAIL
  /\ hist.upl = "finished"
  /\ ~fh.write_conn
  /\ ~WorkerRunning

(***************************************************************************)
(* The non-sequential write on an attached upload.                         *)
(***************************************************************************)
\* a write with offset # pos has torn an upload down and returned -EIO
NonSequentialWriteRefused ==
  /\ WriteReturns
  /\ prod.offset # prod.pos0
  /\ prod.ret = EIO
  /\ hist.upl = "finished"

\* C15: a write with offset # pos on a handle with an attached upload
\* latches the failure: when it has returned -EIO, write_fail_cause is
\* non-zero, so that every later write on the handle is refused.
C15_NonSequentialWriteLatches ==
  NonSequentialWriteRefused => fh.write_fail_cause # CURLE_OK

\* C15, what the code does: the refused write leaves the handle without
\* upload connection and without worker, pos as it was
C15_NonSequentialWriteTearsDown ==
  NonSequentialWriteRefused
    => (~fh.write_conn /\ ~WorkerRunning /\ fh.pos = prod.pos0)

\* C15, the case reached: the refused write has returned and no failure is
\* latched on the handle
C15_Witness ==
  /\ NonSequentialWriteRefused
  /\ fh.write_fail_cause = CURLE_OK

(***************************************************************************)
(* truncate and ftruncate.                                                 *)
(***************************************************************************)
\* the step that serves a truncate or an ftruncate upcall
TruncateStep ==
  /\ prod.pc = "idle"
  /\ prod'.op \in {"truncate", "ftruncate"}

\* the call creates the empty file: length 0, and for ftruncate pos = 0
TruncatesToZero ==
  /\ prod'.offset = 0
  /\ prod'.op = "ftruncate" => fh.pos = 0

\* C16: truncate and ftruncate return 0 only for length 0 and for a length
\* equal to the remote size. Length 0 calls create_empty_file and returns
\* its result, ftruncate also setting write_may_start; ftruncate to 0 at
\* pos > 0 returns -EPERM with no request and no change of the handle. A
\* length equal to the remote size returns 0, any other length -EPERM,
\* both with no request and no change of the handle.
C16_TruncateOutcomes ==
  [][ TruncateStep
        => /\ prod'.pc = "ret"
           /\ prod'.ret \in {0, EPERM}
           /\ UNCHANGED <<sem, thr>>
           /\ prod'.ret = 0
                => (TruncatesToZero \/ prod'.offset = prod'.st_size)
           /\ TruncatesToZero
                => /\ prod'.rpc = "create_empty_file"
                   /\ fh' = IF prod'.op = "ftruncate"
                              THEN [fh EXCEPT !.write_may_start = TRUE]
                              ELSE fh
           /\ ~TruncatesToZero
                => /\ prod'.rpc = "none"
                   /\ fh' = fh
                   /\ prod'.ret = IF prod'.offset # 0
                                     /\ prod'.offset = prod'.st_size
                                    THEN 0 ELSE EPERM ]_vars

\* C16, the case reached: an ftruncate to 0 on a handle with pos > 0 has
\* been refused
C16_Witness ==
  /\ prod.op = "ftruncate"
  /\ prod.pc = "ret"
  /\ prod.offset = 0
  /\ fh.pos > 0
  /\ prod.ret = EPERM
  /\ prod.rpc = "none"

(***************************************************************************)
(* The start of an upload on a handle opened without O_CREAT and O_TRUNC.  *)
(***************************************************************************)
\* a step of an upcall on the open handle that creates the worker
WriteStartsWorker ==
  /\ fh.alloc = "open"
  /\ ~WorkerRunning
  /\ WorkerRunning'

\* C17: on an open handle a worker is created only when write_may_start is
\* set, that is after an open with O_CREAT or O_TRUNC or after an
\* ftruncate to 0 at pos = 0; a write at offset 0 without it starts no
\* upload, whatever the remote size is.
C17_StartNeedsTruncate ==
  [][ WriteStartsWorker => fh.write_may_start ]_vars

\* C17, as the code has it: on an open handle write_may_start is set only
\* by an ftruncate to 0 at pos = 0; the first worker of the handle is
\* created only by a write at offset 0 with pos = 0, and only when
\* write_may_start is set or test_size has answered 0; a write at offset 0
\* without write_may_start on a file whose size is not 0 (or is not known)
\* returns -EIO, creates no worker and leaves the handle as it was; and
\* while neither has happened, pos is 0 and there is no worker.
C17_StartNeedsTruncateOrEmptyFile ==
  /\ []((fh.alloc = "open" /\ ~fh.write_may_start /\ hist.upl = "none")
          => (fh.pos = 0 /\ ~WorkerRunning))
  /\ [][ /\ (fh.alloc = "open" /\ fh'.alloc = "open"
              /\ ~fh.write_may_start /\ fh'.write_may_start)
             => (prod'.op = "ftruncate" /\ prod'.offset = 0 /\ fh.pos = 0)
         /\ (WriteStartsWorker /\ hist.upl = "none")
             => /\ prod'.op = "write"
                /\ prod'.offset = 0
                /\ fh.pos = 0
                /\ fh.write_may_start \/ prod'.st_size = 0
         /\ (prod.pc = "idle" /\ prod'.op = "write" /\ prod'.offset = 0
              /\ fh.pos = 0 /\ ~fh.write_conn /\ ~fh.write_may_start
              /\ fh.write_fail_cause = CURLE_OK /\ prod'.st_size # 0)
             => /\ prod'.pc = "ret"
                /\ prod'.ret = EIO
                /\ ~WorkerRunning'
                /\ fh' = fh ]_vars

\* C17, the case reached: a handle opened without O_CREAT and O_TRUNC, no
\* truncate since, and the worker its first write at offset 0 has created
\* on finding the remote file empty
C17_Witness ==
  /\ prod.op = "write"
  /\ prod.pc = "start_wait_ready"
  /\ prod.offset = 0
  /\ prod.st_size = 0
  /\ ~fh.write_may_start
  /\ fh.pos = 0
  /\ WorkerRunning

(***************************************************************************)
(* Exclusive open of an existing path.                                     *)
(***************************************************************************)
\* an open with O_EXCL of a path that exists has returned
ExclusiveOpenReturns ==
  /\ prod.op = "open"
  /\ prod.pc = "ret"
  /\ prod.exists_excl

\* C18: an open or create with O_EXCL of a path that exists returns
\* -EACCES, read-only with O_CREAT as well as write-only, starts no worker
\* and leaves no handle allocated.
C18_ExclusiveOpenDenied ==
  (ExclusiveOpenReturns /\ prod.acc \in {"O_RDONLY", "O_WRONLY"})
    => /\ prod.ret = EACCES
       /\ fh.alloc # "open"
       /\ ~WorkerRunning
       /\ ~fh.write_conn

\* C18, write-only alone: the open is denied, no worker, no handle
C18_ExclusiveWriteOpenDenied ==
  (ExclusiveOpenReturns /\ prod.acc = "O_WRONLY")
    => /\ prod.ret = EACCES
       /\ fh.alloc # "open"
       /\ ~WorkerRunning
       /\ ~fh.write_conn
       /\ prod.rpc = "none"

\* C18, the case reached: a read-only open with O_CREAT and O_EXCL of a path
\* that exists has emptied the file and returned 0 with the handle
C18_Witness ==
  /\ ExclusiveOpenReturns
  /\ prod.acc = "O_RDONLY"
  /\ prod.ret = 0
  /\ prod.rpc = "create_empty_file"
  /\ fh.alloc = "open"

(***************************************************************************)
(* The backward seek (specification SpecB).                                *)
(***************************************************************************)
\* thread 1 is at a step of a read at offset 0 that follows a read of the
\* handle at an offset > 0
BackwardRead(pc) ==
  /\ th[1].pc = pc
  /\ th[1].op = "read"
  /\ th[1].offset = 0
  /\ seek.prev > 0

\* the restart of the claim: window cleared, begin_offset 0, the connection
\* attached again with no byte range
RestartsFromZero ==
  /\ Restarts(1)
  /\ files'[1].begin_offset = 0
  /\ conn'.range = NoRange

ProducerAccesses == prod.pc \in {"w_append", "w_fin"}

\* the worker's next statement reads or writes stream_buf or written_flag:
\* the test of line 350, the copy of lines 362-375
WorkerAccesses == thr.pc \in {"cb_written", "cb_copy"}

\* the producer has received data_need and not yet posted data_avail
ProducerOwns == prod.pc \in {"w_append", "w_post_avail"}

\* the worker has received data_avail and not yet posted data_need
WorkerOwns == thr.pc \in {"cb_eof", "cb_copy", "cb_post_avail", "cb_post_need"}

\* C20: the producer and the worker never access stream_buf and
\* written_flag at the same time: in no state are both about to read or
\* write them.
C20_ExclusiveAccess == ~(ProducerAccesses /\ WorkerAccesses)

\* C20, the discipline the claim names: the producer accesses them only
\* between the data_need it received and the data_avail it posts, the worker
\* only between the data_avail it received and the data_need it posts
C20_AccessOnlyWhenOwned ==
  /\ ProducerAccesses => ProducerOwns
  /\ WorkerAccesses => WorkerOwns

\* C20, what the semaphores do give: the two are never both between their
\* wait and their post
C20_OwnersExclude == ~(ProducerOwns /\ WorkerOwns)

\* C20, the case reached: the producer is about to append to stream_buf
\* while the worker is about to read stream_buf.len and written_flag
C20_Witness ==
  /\ prod.pc = "w_append"
  /\ thr.pc = "cb_written"

(***************************************************************************)
(* The restart of the transfer (specifications SpecR, SpecL).              *)
(***************************************************************************)
\* the request of thread t lies outside the window of its handle
OutsideWindow(t) ==
  LET f == files[th[t].h]
  IN  \/ th[t].offset < f.begin_offset
      \/ th[t].offset > f.begin_offset + Len(f.buf)

\* the byte range a restart at offset asks for
RangeFor(offset) == IF offset > 0 THEN offset ELSE NoRange

\* C21: every ftpfs_read_chunk whose offset is below begin_offset or above
\* begin_offset + len restarts: the previous transfer is removed, the window
\* cleared and set to begin at offset, the handle made current_fh, and the
\* transfer attached has the byte range offset- (none for offset 0,
\* whatever ranges earlier restarts used); while a transfer has not started
\* the range of the connection is the one of the owner's window, and what
\* its first perform delivers into the window are the file's bytes from
\* offset on.
C21_OutsideWindowRestarts ==
  /\ [][ \A t \in Threads :
           /\ (th[t].pc = "rc_check" /\ OutsideWindow(t) /\ th'[t] # th[t])
                => /\ Restarts(t)
                   /\ conn'.range = RangeFor(th[t].offset)
           /\ (th[t].pc = "rc_perform" /\ multi.st = "new"
                 /\ th'[t] # th[t])
                => /\ conn'.range = NoRange
                   /\ LET f == files'[th[t].h]
                      IN  f.buf = FileSlice(f.path, th[t].offset, Len(f.buf))
       ]_vars
  /\ [](multi.st = "new"
          => /\ ftpfs.current_fh # NULL
             /\ conn.range = RangeFor(files[ftpfs.current_fh].begin_offset)
             /\ files[ftpfs.current_fh].buf = <<>>)
  /\ [](multi.st # "new" => conn.range = NoRange)

\* C21, the case reached: a read at offset 0 has restarted a transfer that
\* an earlier restart had started with a byte range
C21_Witness ==
  \E t \in Threads :
    /\ th[t].pc = "rc_loop"
    /\ th[t].op = "read"
    /\ th[t].offset = 0
    /\ ~ftpfs.dangled
    /\ files[th[t].h].begin_offset = 0
    /\ files[th[t].h].buf = FileSlice(files[th[t].h].path, 0, th[t].size)
    /\ files[th[t].h].buf # <<>>
    /\ \E s \in Slots : files[s].alloc = "open" /\ files[s].begin_offset > 0

\* thread t is at the cache test of ftpfs_read_chunk on a handle that is
\* not ftpfs.current_fh, and takes its step
NonOwnerCall(t) ==
  /\ th[t].pc = "rc_check"
  /\ ftpfs.current_fh # th[t].h
  /\ th'[t] # th[t]

\* the window of the handle of thread t holds the bytes the call asks for
WindowHolds(t) ==
  LET f == files[th[t].h]
  IN  /\ f.begin_offset <= th[t].offset
      /\ th[t].offset + th[t].size <= f.begin_offset + Len(f.buf)

SequentialRead ==
  /\ th[1].pc = "rc_check"
  /\ th[1].op = "read"
  /\ seek.next = th[1].offset

\* check_running() (line 235) can return 0 in this state
CanHaveStopped == \E o \in curl_multi_perform(files, multi, conn) : o.rh = 0

FinishHasPosted == prod.pc \in {"f_eof", "f_join"}

\* C24: the run of the read-callback that finish_write_thread wakes with
\* its post of data_avail reads eof as set, and returns 0.
C24_FinishWakesWithEof ==
  [][ (FinishHasPosted /\ thr.pc = "cb_eof" /\ thr' # thr)
        => (fh.eof /\ thr'.pc = "t_perform" /\ thr'.done) ]_vars

\* C24, the case reached: the callback woken by finish_write_thread has
\* read eof before line 478 has set it, and is about to copy from
\* stream_buf
C24_Witness ==
  /\ prod.pc = "f_eof"
  /\ thr.pc = "cb_copy"
  /\ ~fh.eof
  /\ fh.write_fail_cause = CURLE_OK

\* C25: the read-callback has returned 0 to the library (the end of the
\* upload body) only when eof is set; no write makes it return 0 while the
\* producer has not finished the upload.
C25_ZeroOnlyOnEof == thr.done => fh.eof

\* C25, the case reached: the callback has copied nothing and returns 0
\* during a write, eof not set, and the producer waits for data_written
C25_Witness ==
  /\ thr.done
  /\ ~fh.eof
  /\ prod.op = "write"
  /\ prod.pc = "w_wait_written"
  /\ fh.write_conn
  /\ fh.write_fail_cause = CURLE_OK

(***************************************************************************)
(* The open that starts the worker (specification SpecW).                  *)
(***************************************************************************)
\* the producer takes a step of ftpfs_open_common from the position pc
OpenStep(pc) == prod.op = "open" /\ prod.pc = pc /\ prod' # prod

\* the order of lines 675-683: the worker is created, with the semaphores
\* at zero; the producer takes ready; ftpfs_chmod is called with O_CREAT
\* only; data_need is posted once and the open returns 0
OpenStartOrder ==
  [][ /\ (prod.pc = "idle" /\ prod'.op = "open"
            /\ prod'.pc = "start_wait_ready")
           => /\ thr'.pc = "t_config"
              /\ sem' = SemZero
              /\ fh'.write_conn /\ fh'.write_may_start
      /\ OpenStep("start_wait_ready")
           => /\ sem.ready > 0
              /\ sem' = [sem EXCEPT !.ready = @ - 1]
              /\ prod'.pc = IF prod.creat THEN "start_chmod"
                            ELSE "start_post_need"
      /\ OpenStep("start_chmod")
           => /\ prod.creat
              /\ prod'.pc = "start_post_need"
              /\ UNCHANGED sem
      /\ OpenStep("start_post_need")
           => /\ sem' = [sem EXCEPT !.data_need = @ + 1]
              /\ prod'.pc = "ret"
              /\ prod'.ret = 0
      /\ (prod.op = "open" /\ sem'.data_need > sem.data_need)
           => (prod.pc = "start_post_need" \/ thr.pc = "t_post_need") ]_vars

\* an open that has started the worker is returning success
OpenReturnsStarted ==
  /\ prod.op = "open"
  /\ prod.pc = "ret"
  /\ prod.ret = 0
  /\ fh.write_conn

\* the worker has not failed: curl_easy_perform has not returned
HealthyWorker ==
  /\ fh.write_fail_cause = CURLE_OK
  /\ thr.pc \in {"t_config", "t_perform", "cb_entry", "cb_written", "cb_wait",
                 "cb_eof", "cb_copy", "cb_post_avail", "cb_post_need"}

ResumingWrite ==
  /\ prod.pc = "idle"
  /\ prod'.op = "write"
  /\ prod'.offset = fh.pos
  /\ fh.alloc = "open"
  /\ ~fh.write_conn
  /\ fh.pos > 0
  /\ fh.write_fail_cause = CURLE_OK

\* C27: after an upload has been torn down without failure at pos > 0, a
\* write with offset == pos creates a new worker, with the four semaphores
\* at zero, eof, isready and written_flag cleared and pos unchanged (or
\* returns -EIO when the library cannot create it); the worker sets
\* CURLOPT_APPEND exactly when pos > 0, and pos is, when the worker reads
\* it, what it was when start_write_thread was called.
C27_ResumeAppends ==
  /\ [][ /\ ResumingWrite
              => \/ /\ prod'.pc = "start_wait_ready"
                    /\ thr' = [NoThread EXCEPT !.pc = "t_config"]
                    /\ sem' = SemZero
                    /\ fh'.write_conn
                    /\ ~fh'.eof /\ ~fh'.isready /\ ~fh'.written_flag
                    /\ fh'.pos = fh.pos
                    /\ fh'.stream_buf = <<>>
                 \/ /\ prod'.pc = "ret"
                    /\ prod'.ret = EIO
                    /\ thr' = NoThread
                    /\ fh'.pos = fh.pos
         /\ (thr.pc = "t_config" /\ thr' # thr)
              => /\ thr'.append = (fh.pos > 0)
                 /\ thr'.pc = "t_perform"
         /\ (thr.pc \notin {"none", "t_config"} /\ thr'.pc # "none")
              => thr'.append = thr.append ]_vars
  /\ [](thr.pc = "t_config"
          => /\ prod.pc = "start_wait_ready"
             /\ fh.pos = prod.pos0
             /\ (prod.op = "write" => fh.pos = prod.offset)
             /\ (prod.op = "open" => fh.pos = 0))

\* C27, the case reached: a write that resumes at pos > 0 has received
\* ready from a worker that has set CURLOPT_APPEND
C27_Witness ==
  /\ prod.op = "write"
  /\ prod.pc = "start_post_need"
  /\ prod.offset = fh.pos
  /\ fh.pos > 0
  /\ thr.append
  /\ thr.pc = "cb_wait"
  /\ hist.upl = "active"

(***************************************************************************)
(* The size of the window (specification SpecS).                           *)
(***************************************************************************)
\* no ftpfs_read_chunk is in progress on the handle at slot 1
ChunkReturned ==
  /\ files[1].alloc = "open"
  /\ th[1].pc \notin {"rc_lock", "rc_check", "rc_perform", "rc_loop",
                      "rc_msgs", "rc_serve"}

\* C28: whenever ftpfs_read_chunk has returned on a read-only handle, the
\* window holds at most MAX_BUFFER_LEN bytes plus what one
\* curl_multi_perform delivers; the shrink step, taken when the window is
\* longer than MAX_BUFFER_LEN, removes exactly the bytes before
\* offset + served and sets begin_offset to offset + served, and the window
\* is left as it is otherwise.
C28_WindowBounded ==
  /\ [](ChunkReturned => Len(files[1].buf) <= MAX_BUFFER_LEN + MaxChunk)
  /\ [][ (th[1].pc = "rc_serve" /\ th'[1] # th[1])
           => LET f == files[1]
                  g == files'[1]
                  served == Served(f, th[1].offset, th[1].size)
                  cut == th[1].offset + served - f.begin_offset
              IN  IF Len(f.buf) > MAX_BUFFER_LEN
                    THEN /\ g.begin_offset = th[1].offset + served
                         /\ Len(g.buf) = Len(f.buf) - cut
                         /\ \A i \in 1..Len(g.buf) : g.buf[i] = f.buf[cut + i]
                         /\ g.path = f.path /\ g.alloc = f.alloc
                    ELSE g = f ]_vars

\* C28, the case reached: a read in sequence has returned, its shrink step
\* has left a window that begins at the end of the read and is still longer
\* than MAX_BUFFER_LEN
C28_Witness ==
  /\ ChunkReturned
  /\ th[1].pc = "idle"
  /\ seek.next > 0
  /\ files[1].begin_offset = seek.next
  /\ Len(files[1].buf) > MAX_BUFFER_LEN

(***************************************************************************)
(* The shared connection and the pump (specification SpecL).               *)
(***************************************************************************)
\* C29: ftpfs.attached_to_multi tells whether the shared connection is
\* registered with ftpfs.multi; the connection is added to the pump only by
\* the restart of ftpfs_read_chunk, after cancel_previous_multi has left it
\* unregistered; a metadata RPC runs its blocking perform under the lock,
\* with the connection removed from the pump by cancel_previous_multi.
C29_AttachedIffRegistered ==
  /\ [](ftpfs.attached_to_multi = multi.added)
  /\ [](\A t \in Threads : th[t].pc = "rpc_body" => ftpfs.lock = t)
  /\ [][ /\ (multi' # multi /\ multi'.added
                /\ (~multi.added \/ multi'.st = "new"))
              => /\ \E t \in Threads : Restarts(t) /\ ftpfs.lock = t
                 /\ ~cancel_previous_multi(ftpfs, multi).added
         /\ \A t \in Threads :
              (th[t].pc = "rpc_body" /\ th'[t] # th[t])
                => /\ multi' = cancel_previous_multi(ftpfs, multi)
                   /\ ~multi'.added
                   /\ ~ftpfs'.attached_to_multi ]_vars

\* C29, the case reached: a metadata RPC has taken the connection out of
\* the pump while a handle was downloading on it
C29_Witness ==
  /\ \A t \in Threads : th[t].pc = "idle"
  /\ ftpfs.current_fh # NULL
  /\ files[ftpfs.current_fh].alloc = "open"
  /\ files[ftpfs.current_fh].buf # <<>>
  /\ ~ftpfs.attached_to_multi
  /\ ~multi.added
  /\ conn.writedata = NULL

(***************************************************************************)
(* The end of a handle (specification SpecW).                              *)
(***************************************************************************)
\* free_ftpfs_file is executed in this step
Frees == fh'.alloc = "freed" /\ fh' # fh

\* C30: free_ftpfs_file is never executed on a handle whose worker has been
\* created and not joined: when ftpfs_release frees the handle,
\* finish_write_thread has returned or there has been no upload to finish,
\* and a failing open frees a handle that has no worker; no worker exists
\* while the handle is not open.
C30_NoFreeBeforeJoin ==
  /\ [][ Frees
           => /\ ~WorkerRunning
              /\ thr' = thr
              /\ prod.op = "release"
                   => /\ prod.pc = "rel_free"
                      /\ ~fh.write_conn
                      /\ hist.upl # "active"
              /\ prod.op # "release"
                   => /\ prod.pc = "idle"
                      /\ prod'.op = "open"
                      /\ prod'.ret # 0 ]_vars
  /\ [](fh.alloc # "open" => ~WorkerRunning)

\* C30, the case reached: a release has finished the upload of the handle,
\* joined its worker and freed the handle
C30_Witness ==
  /\ prod.op = "release"
  /\ prod.pc = "ret"
  /\ fh.alloc = "freed"
  /\ hist.upl = "finished"
  /\ hist.sent # <<>>
  /\ ~WorkerRunning

(***************************************************************************)
(* The mutex of the shared connection and the upload (specification        *)
(* SpecC).                                                                 *)
(***************************************************************************)
\* the next step of the thread that holds ftpfs.lock
HolderStep ==
  \/ LockedByProducer
       /\ (StartChmod \/ (\E st \in RemoteSizes : FlushGetattr(st))
             \/ ReleaseFree)
  \/ \E t \in Threads : ftpfs.lock = t /\ RpcBody(t)

\* a step of the worker thread
WorkerStep ==
  \/ ThreadConfig
  \/ \E cap \in 1..MaxCap : LibCallback(cap)
  \/ \E res \in {CURLE_OK, CURLE_FAIL} : LibReturn(res)
  \/ CbReady \/ CbWritten \/ CbWaitAvail \/ CbEof \/ CbCopy
  \/ CbPostAvail \/ CbPostNeed
  \/ ThreadPostReady \/ ThreadSetFail \/ ThreadPostNeed \/ ThreadPostWritten

\* C31: the thread that holds ftpfs.lock is never in sem_wait on a
\* semaphore of the upload nor in pthread_join, and its next step can
\* always be taken, whatever the upload does; the worker never takes nor
\* releases the lock, and when it cannot step it is in
\* sem_wait(data_avail), whoever holds the lock; a dispatcher thread that
\* holds the lock changes nothing of the upload.
C31_NoWaitUnderLock ==
  /\ [](LockedByProducer
          => /\ ~ProducerWaits
             /\ prod.pc \in {"start_chmod", "fl_getattr", "rel_free"})
  /\ [](\A t \in Threads : ftpfs.lock = t => th[t].pc = "rpc_body")
  /\ [](ftpfs.lock # 0 => ENABLED HolderStep)
  /\ []((WorkerRunning /\ thr.pc # "exited" /\ ~ENABLED WorkerStep)
          => (thr.pc = "cb_wait" /\ sem.data_avail = 0))
  /\ [][ /\ (thr' # thr /\ prod' = prod) => ftpfs'.lock = ftpfs.lock
         /\ (ProducerWaits /\ prod' # prod) => ftpfs'.lock = ftpfs.lock
         /\ (th' # th) => UNCHANGED wvars ]_vars

\* C31, the case reached: a dispatcher thread holds the lock for a metadata
\* RPC while the producer of the upload waits for data_written and the
\* worker waits for data_avail
C31_Witness ==
  /\ ftpfs.lock = 1
  /\ th[1].pc = "rpc_body"
  /\ prod.pc = "w_wait_written"
  /\ thr.pc = "cb_wait"
  /\ sem.data_avail = 0

====
